---- MODULE Spec2Model ----
(***************************************************************************)
(* Model of the upstream resolution engine of the Thronos BTC API adapter  *)
(* (src/main.py): the shared rate gate (_rate_limit), the ordered failover *)
(* fetch (_fetch_from_upstreams) and the TTL cache (_get_cached_or_fetch). *)
(*                                                                         *)
(* Scheduling is asyncio's: one task runs at a time and keeps running      *)
(* until it suspends (a held lock, asyncio.sleep, the transport call), so  *)
(* every action is the code between two suspension points.                 *)
(*                                                                         *)
(* Time is counted in ticks, TicksPerSec ticks to the second.  time.time() *)
(* is the variable clock; it never runs backwards, and asyncio.sleep(d)    *)
(* resumes its caller no earlier than d after the call.                    *)
(***************************************************************************)
EXTENDS Integers, Sequences, FiniteSets, TLC

\* ---------------------------------------------------------------- bounds
NumTasks == 2        \* concurrent request handlers
MaxCalls == 3        \* resolves invoked in one run
MaxTime == 2         \* last tick of the clock
MaxUpstreams == 2    \* longest configured upstream list
TicksPerSec == 1     \* resolution of the clock

Tasks == 1..NumTasks
\* min_gap before two calls have returned
NoGap == MaxTime + 1

\* ------------------------------------------------------- configuration
\* UPSTREAMS: the first n of the base URLs, n = 0 being UPSTREAMS="" in the
\* environment.
AllBases == [i \in 1..MaxUpstreams |-> i]
UpstreamChoices == {SubSeq(AllBases, 1, n) : n \in 0..MaxUpstreams}
\* CACHE_TTL, in seconds.
TTLChoices == {0, 1}
\* TTLs of which one outlasts a fetch that takes a second.
LongTTLChoices == {1, 2}
\* RATE_LIMIT_RPS, in calls per second.
RateChoices == {-1, 0, 1}

\* ------------------------------------------------------------- payloads
\* A value of the program (a parsed JSON number, a text, the HTTPException),
\* as a record so that values of different Python types compare.
IntVal(n) == [kind |-> "int", num |-> n, text |-> ""]
StrVal(s) == [kind |-> "str", num |-> 0, text |-> s]
HTTPException502 == [kind |-> "error", num |-> 502, text |-> "All upstreams failed"]
NoValue == [kind |-> "none", num |-> 0, text |-> ""]
JSONDecodeError == [kind |-> "raise", num |-> 0, text |-> "JSONDecodeError"]
DictVal == [kind |-> "dict", num |-> 0, text |-> "{}"]
ValueError == [kind |-> "raise", num |-> 0, text |-> "ValueError"]
TypeError == [kind |-> "raise", num |-> 0, text |-> "TypeError"]

\* resp.json(): json.loads of the body; a body that is no JSON text raises.
JsonParse(body) ==
    CASE body = "800000" -> IntVal(800000)
      [] body = "{}" -> DictVal
      [] OTHER -> JSONDecodeError

\* int(data): a number as it is, a text of digits as the number it spells;
\* any other text raises ValueError, any other value TypeError.
int(data) ==
    CASE data.kind = "int" -> data
      [] data.kind = "str" ->
           IF data.text = "800000" THEN IntVal(800000) ELSE ValueError
      [] OTHER -> TypeError

\* What client.get(url) can produce: an exception (connection error, timeout)
\* or a response (status, content type, body).
Response(status, ctype, body) ==
    [exc |-> FALSE, status |-> status, ctype |-> ctype, body |-> body]
TransportError == [exc |-> TRUE, status |-> 0, ctype |-> "", body |-> ""]
Responses ==
    { TransportError,
      Response(404, "text/plain", "<html>"),
      Response(200, "application/json", "800000"),
      Response(200, "application/json", "<html>"),
      Response(200, "text/plain", "800000") }

\* What the tip height endpoint is checked against: the same, and the
\* status 200 answers whose payload is no number.
TipResponses ==
    Responses \cup { Response(200, "text/plain", "<html>"),
                     Response(200, "application/json", "{}") }

\* ------------------------------------------------------------- requests
\* The endpoints' calls _get_cached_or_fetch(name, fetch, *args): name and
\* positional arguments; no endpoint passes keyword arguments.
Requests ==
    { <<"block", <<"a">>>>, <<"block", <<"b">>>>, <<"tx", <<"a">>>> }

\* get_tip_height's call, beside one of an endpoint that returns the
\* resolved payload as it is.
TipHeight == <<"tip_height", <<>>>>
TipRequests == { TipHeight, <<"block", <<"a">>>> }

\* A faulty variant of _cache_key: the arguments left out of the key.
_cache_key_NameOnly(name, args) == <<name, <<>>, <<>>>>

\* _cache_key(name, *args, **kwargs) with kwargs = {}.
_cache_key(name, args) == <<name, args, <<>>>>

KeyOf(rq) == _cache_key(rq[1], rq[2])

\* The endpoints' path functions: "/blocks/tip/height", f"/block/{bh}",
\* f"/tx/{t}".
PathOf(rq) ==
    IF rq = TipHeight
    THEN <<"/", "blocks", "/", "tip", "/", "height">>
    ELSE <<"/", rq[1], "/", rq[2][1]>>

\* A faulty variant of get_tip_height: the payload is returned as resolved.
get_tip_height_NoCoercion(data) == data

\* The end of get_tip_height: try: return int(data); except (ValueError,
\* TypeError): return data.
get_tip_height(data) ==
    LET n == int(data) IN
    IF n.kind = "raise" THEN data ELSE n

\* What the endpoint of request rq makes of the outcome of its resolve: the
\* HTTPException leaves the endpoint as it is, get_tip_height coerces the
\* payload, the other endpoints return it.
Endpoint(rq, data) ==
    IF data.kind = "error" THEN data
    ELSE IF rq = TipHeight THEN get_tip_height(data)
    ELSE data

\* A faulty variant of UrlOf: every url is built on the first base.
UrlOf_FirstBase(base, path) == <<1, path>>

\* url = f"{base}{path}"
UrlOf(base, path) == <<base, path>>

VARIABLES
    UPSTREAMS,            \* configuration, fixed at start
    CACHE_TTL,
    RATE_LIMIT_RPS,
    clock,                \* time.time()
    _cache,               \* key -> <<result, timestamp>>, on the keys present
    _last_request_time,
    rate_locked,          \* _rate_lock._locked
    rate_waiters,         \* _rate_lock._waiters, first come first served
    pc,                   \* per task: "idle", "lock_wait", "sleep", "http", "done"
                          \*   ("done": the resolve has returned or raised, and the
                          \*   endpoint has not yet returned to the server)
    req,                  \* per task: the request being resolved
    now,                  \* per task: now of _get_cached_or_fetch
    idx,                  \* per task: position of the for loop in UPSTREAMS
    wake_at,              \* per task: when its asyncio.sleep ends
    ret,                  \* per task: what its resolve returned or raised
    out,                  \* per task: what its endpoint returned or raised
    calls,                \* resolves invoked so far
    fetched,              \* history, per task: this resolve called path_func
    contacted,            \* history, per task: urls of this resolve's transport calls
    gate_calls,           \* history, per task: _rate_limit calls of this resolve
    answers,              \* history, per task: what those transport calls produced
    stores,               \* history, per task: cache writes of this resolve
    overwritten,          \* history, per task: another resolve stored under its key since
    origin,               \* history, per key present: the response the entry's
                          \*   value came with, when and on which path it was received
    last_done,            \* history, of the enabled gate: when the latest _rate_limit
                          \*   call returned, -1 if none did
    min_gap               \* history, of the enabled gate: least time between two
                          \*   successive returns of _rate_limit

vars == <<UPSTREAMS, CACHE_TTL, RATE_LIMIT_RPS, clock, _cache, _last_request_time,
          rate_locked, rate_waiters, pc, req, now, idx, wake_at, ret, out, calls,
          fetched, contacted, gate_calls, answers, stores, overwritten, origin,
          last_done, min_gap>>

config == <<UPSTREAMS, CACHE_TTL, RATE_LIMIT_RPS>>

\* ----------------------------------------------------------- rate gate
\* A faulty variant of GateDisabled: only a rate of exactly 0 disables the gate.
GateDisabled_ZeroOnly == RATE_LIMIT_RPS = 0

\* if RATE_LIMIT_RPS <= 0: return
GateDisabled == RATE_LIMIT_RPS <= 0

\* min_interval = 1.0 / RATE_LIMIT_RPS, in ticks (exact for the rates of RateChoices)
MinInterval == TicksPerSec \div RATE_LIMIT_RPS

\* wait_time = min_interval - (now - _last_request_time)
WaitTime(now_) == MinInterval - (now_ - _last_request_time)

\* A faulty variant of LockFree: the gate without its lock.
LockFree_NoLock == TRUE

\* asyncio.Lock.acquire takes the lock at once only when it is not held and
\* no task is queued for it.
LockFree == ~rate_locked /\ rate_waiters = <<>>

\* A faulty variant of CriticalSection: the lock is given up for the sleep.
CriticalSection_SleepUnlocked(w) ==
    LET wait_time == WaitTime(clock) IN
    IF wait_time > 0
    THEN [state |-> "sleep", locked |-> FALSE, waiters |-> w,
          last |-> _last_request_time, wake |-> clock + wait_time]
    ELSE [state |-> "passed", locked |-> FALSE, waiters |-> w,
          last |-> clock, wake |-> 0]

\* The body of "async with _rate_lock", run by a task that has just taken the
\* lock, up to the sleep or to the end; w is the queue it leaves behind.
CriticalSection(w) ==
    LET wait_time == WaitTime(clock) IN
    IF wait_time > 0
    THEN [state |-> "sleep", locked |-> TRUE, waiters |-> w,
          last |-> _last_request_time, wake |-> clock + wait_time]
    ELSE [state |-> "passed", locked |-> FALSE, waiters |-> w,
          last |-> clock, wake |-> 0]

\* A faulty variant of AfterSleep: the lock is kept after the sleep.
AfterSleep_LockKept ==
    [state |-> "passed", locked |-> TRUE, waiters |-> rate_waiters,
     last |-> clock, wake |-> 0]

\* After the sleep: _last_request_time = time.time(), and the lock is released.
AfterSleep ==
    [state |-> "passed", locked |-> FALSE, waiters |-> rate_waiters,
     last |-> clock, wake |-> 0]

\* _rate_limit() called by task t, up to its first suspension or its return.
rate_limit(t) ==
    IF GateDisabled
    THEN [state |-> "passed", locked |-> rate_locked, waiters |-> rate_waiters,
          last |-> _last_request_time, wake |-> 0]
    ELSE IF LockFree
    THEN CriticalSection(rate_waiters)
    ELSE [state |-> "lock_wait", locked |-> rate_locked,
          waiters |-> Append(rate_waiters, t),
          last |-> _last_request_time, wake |-> 0]

\* asyncio.sleep(wait_time) of task t is over.
SleepOver(t) == clock >= wake_at[t]

\* ---------------------------------------------------------------- fetch
\* One pass of the try block on a response: the value returned, or a marker
\* when the loop goes on (exception caught, or status other than 200).
NextUpstream == [kind |-> "continue", num |-> 0, text |-> ""]

IsJson(resp) == resp.ctype = "application/json"

\* A faulty variant of Attempt: the body of every 200 response returned as text.
Attempt_TextOnly(resp) ==
    IF resp.exc THEN NextUpstream
    ELSE IF resp.status = 200 THEN StrVal(resp.body)
    ELSE NextUpstream

Attempt(resp) ==
    IF resp.exc THEN NextUpstream
    ELSE IF resp.status = 200
    THEN IF IsJson(resp)
         THEN LET v == JsonParse(resp.body) IN
              IF v.kind = "raise" THEN NextUpstream ELSE v
         ELSE StrVal(resp.body)
    ELSE NextUpstream

\* ---------------------------------------------------------------- cache
TTLTicks == CACHE_TTL * TicksPerSec

\* A faulty variant of CacheFresh: the cache check never succeeds.
CacheFresh_Never(key, now_) == FALSE

\* A faulty variant of CacheFresh: an entry exactly TTL old still counts as fresh.
CacheFresh_Inclusive(key, now_) ==
    /\ key \in DOMAIN _cache
    /\ now_ - _cache[key][2] <= TTLTicks

\* key in _cache and now - ts < CACHE_TTL
CacheFresh(key, now_) ==
    /\ key \in DOMAIN _cache
    /\ now_ - _cache[key][2] < TTLTicks

\* A faulty variant of CacheStore: the result is returned without being stored.
CacheStore_Dropped(key, result, now_) == _cache

\* A faulty variant of CacheStore: an entry already present is kept.
CacheStore_KeepFirst(key, result, now_) ==
    [k \in DOMAIN _cache \cup {key} |->
        IF k \in DOMAIN _cache THEN _cache[k] ELSE <<result, now_>>]

\* A faulty variant of CacheStore: the store sweeps the stale entries away.
CacheStore_Evicting(key, result, now_) ==
    [k \in {key} \cup {j \in DOMAIN _cache : now_ - _cache[j][2] < TTLTicks} |->
        IF k = key THEN <<result, now_>> ELSE _cache[k]]

\* A faulty variant of CacheStore: the entry is stamped a tick ahead.
CacheStore_PostDated(key, result, now_) ==
    [k \in DOMAIN _cache \cup {key} |->
        IF k = key THEN <<result, now_ + 1>> ELSE _cache[k]]

\* _cache[key] = (result, now)
CacheStore(key, result, now_) ==
    [k \in DOMAIN _cache \cup {key} |->
        IF k = key THEN <<result, now_>> ELSE _cache[k]]

\* A faulty variant of CacheAfterRaise: the failure is stored like a result.
CacheAfterRaise_Stored(key, now_) == CacheStore(key, HTTPException502, now_)

\* result = await path_func(...) raises: the assignment to _cache[key] that
\* follows it is not run.
CacheAfterRaise(key, now_) == _cache

\* ------------------------------------------------------ steps of a task
\* A faulty variant of Exhausted: the loop stops one upstream early.
Exhausted_OneEarly(i) == i >= Len(UPSTREAMS)

\* The position of _fetch_from_upstreams' for loop is past the list.
Exhausted(i) == i > Len(UPSTREAMS)

\* The effect on the gate and on task t of a _rate_limit outcome g met at
\* list position i of a fetch; gc is the task's count of gate calls with
\* this one.  A passed gate is followed, without suspension, by the
\* transport call to UPSTREAMS[i], on which the task suspends.
GateResult(t, i, rq, gc, ct, g) ==
    /\ pc' = [pc EXCEPT ![t] =
                IF g.state = "passed" THEN "http" ELSE g.state]
    /\ idx' = [idx EXCEPT ![t] = i]
    /\ wake_at' = [wake_at EXCEPT ![t] = g.wake]
    /\ rate_locked' = g.locked
    /\ rate_waiters' = g.waiters
    /\ _last_request_time' = g.last
    /\ gate_calls' = [gate_calls EXCEPT ![t] = gc]
    /\ last_done' = IF g.state = "passed" /\ ~GateDisabled THEN clock ELSE last_done
    /\ min_gap' =
         IF /\ g.state = "passed" /\ ~GateDisabled
            /\ last_done # -1 /\ clock - last_done < min_gap
         THEN clock - last_done
         ELSE min_gap
    /\ contacted' = [contacted EXCEPT ![t] =
         IF g.state = "passed"
         THEN Append(ct, UrlOf(UPSTREAMS[i], PathOf(rq)))
         ELSE ct]

\* A faulty variant of LoopFrom: the gate is entered before the list is looked at, so
\* an exhausted list still costs a gate call.
LoopFrom_GateFirst(t, i, rq, gc, ct) ==
    IF Exhausted(i)
    THEN /\ pc' = [pc EXCEPT ![t] = "done"]
         /\ ret' = [ret EXCEPT ![t] = HTTPException502]
         /\ out' = [out EXCEPT ![t] = Endpoint(rq, HTTPException502)]
         /\ idx' = [idx EXCEPT ![t] = 0]
         /\ _cache' = CacheAfterRaise(KeyOf(rq), clock)
         /\ gate_calls' = [gate_calls EXCEPT ![t] = gc + 1]
         /\ contacted' = [contacted EXCEPT ![t] = ct]
         /\ _last_request_time' = IF GateDisabled THEN _last_request_time ELSE clock
         /\ UNCHANGED <<wake_at, rate_locked, rate_waiters, last_done, min_gap>>
    ELSE /\ GateResult(t, i, rq, gc + 1, ct, rate_limit(t))
         /\ ret' = [ret EXCEPT ![t] = NoValue]
         /\ UNCHANGED <<_cache, out>>

\* The for loop of _fetch_from_upstreams run by task t from list position i
\* to its next suspension; past the end of the list it raises, and
\* _get_cached_or_fetch lets the exception through.
LoopFrom(t, i, rq, gc, ct) ==
    IF Exhausted(i)
    THEN /\ pc' = [pc EXCEPT ![t] = "done"]
         /\ ret' = [ret EXCEPT ![t] = HTTPException502]
         /\ out' = [out EXCEPT ![t] = Endpoint(rq, HTTPException502)]
         /\ idx' = [idx EXCEPT ![t] = 0]
         /\ _cache' = CacheAfterRaise(KeyOf(rq), clock)
         /\ gate_calls' = [gate_calls EXCEPT ![t] = gc]
         /\ contacted' = [contacted EXCEPT ![t] = ct]
         /\ UNCHANGED <<wake_at, rate_locked, rate_waiters, _last_request_time,
                        last_done, min_gap>>
    ELSE /\ GateResult(t, i, rq, gc + 1, ct, rate_limit(t))
         /\ ret' = [ret EXCEPT ![t] = NoValue]
         /\ UNCHANGED <<_cache, out>>

NoRequest == <<"", <<>>>>

\* The state after import, the TTL being one of ttls.
Start(ttls) ==
    /\ UPSTREAMS \in UpstreamChoices
    /\ CACHE_TTL \in ttls
    /\ RATE_LIMIT_RPS \in RateChoices
    /\ clock = 1        \* the process starts after the epoch: time.time() > 0.0
    /\ _cache = <<>>
    /\ _last_request_time = 0
    /\ rate_locked = FALSE
    /\ rate_waiters = <<>>
    /\ pc = [t \in Tasks |-> "idle"]
    /\ req = [t \in Tasks |-> NoRequest]
    /\ now = [t \in Tasks |-> 0]
    /\ idx = [t \in Tasks |-> 0]
    /\ wake_at = [t \in Tasks |-> 0]
    /\ ret = [t \in Tasks |-> NoValue]
    /\ out = [t \in Tasks |-> NoValue]
    /\ calls = 0
    /\ fetched = [t \in Tasks |-> FALSE]
    /\ contacted = [t \in Tasks |-> <<>>]
    /\ gate_calls = [t \in Tasks |-> 0]
    /\ answers = [t \in Tasks |-> <<>>]
    /\ stores = [t \in Tasks |-> 0]
    /\ overwritten = [t \in Tasks |-> FALSE]
    /\ origin = <<>>
    /\ last_done = -1
    /\ min_gap = NoGap

Init == Start(TTLChoices)

\* An endpoint calls _get_cached_or_fetch(name, fetch, *args): the key, now,
\* the cache check and, on a miss, the fetch up to its first suspension.
Invoke(t, rq) ==
    /\ pc[t] = "idle"
    /\ calls < MaxCalls
    /\ calls' = calls + 1
    /\ req' = [req EXCEPT ![t] = rq]
    /\ now' = [now EXCEPT ![t] = clock]
    /\ IF CacheFresh(KeyOf(rq), clock)
       THEN /\ pc' = [pc EXCEPT ![t] = "done"]
            /\ ret' = [ret EXCEPT ![t] = _cache[KeyOf(rq)][1]]
            /\ out' = [out EXCEPT ![t] = Endpoint(rq, _cache[KeyOf(rq)][1])]
            /\ fetched' = [fetched EXCEPT ![t] = FALSE]
            /\ UNCHANGED <<_cache, idx, contacted, gate_calls, wake_at, rate_locked,
                           rate_waiters, _last_request_time, last_done, min_gap>>
       ELSE /\ fetched' = [fetched EXCEPT ![t] = TRUE]
            /\ LoopFrom(t, 1, rq, 0, <<>>)
    /\ UNCHANGED <<config, clock, answers, stores, overwritten, origin>>

\* A task queued for _rate_lock is given it (the lock is free and the task
\* is first in the queue) and runs the critical section.
LockGranted(t) ==
    /\ pc[t] = "lock_wait"
    /\ ~rate_locked
    /\ rate_waiters # <<>>
    /\ Head(rate_waiters) = t
    /\ GateResult(t, idx[t], req[t], gate_calls[t], contacted[t],
                  CriticalSection(Tail(rate_waiters)))
    /\ UNCHANGED <<config, clock, _cache, req, now, ret, out, calls, fetched,
                   answers, stores, overwritten, origin>>

\* The sleep inside the gate ends: the rest of _rate_limit, then the
\* transport call.
Wake(t) ==
    /\ pc[t] = "sleep"
    /\ SleepOver(t)
    /\ GateResult(t, idx[t], req[t], gate_calls[t], contacted[t], AfterSleep)
    /\ UNCHANGED <<config, clock, _cache, req, now, ret, out, calls, fetched,
                   answers, stores, overwritten, origin>>

\* client.get of task t ends with resp: the first usable response is
\* returned by the fetch, stored by _get_cached_or_fetch with the task's now
\* and returned; otherwise the loop goes on with the next upstream.
HttpDone(t, resp) ==
    /\ pc[t] = "http"
    /\ answers' = [answers EXCEPT ![t] = Append(@, resp)]
    /\ LET result == Attempt(resp) IN
       IF result.kind # "continue"
       THEN /\ _cache' = CacheStore(KeyOf(req[t]), result, now[t])
            /\ pc' = [pc EXCEPT ![t] = "done"]
            /\ ret' = [ret EXCEPT ![t] = result]
            /\ out' = [out EXCEPT ![t] = Endpoint(req[t], result)]
            /\ idx' = [idx EXCEPT ![t] = 0]
            /\ stores' = [stores EXCEPT ![t] = @ + 1]
            /\ overwritten' = [u \in Tasks |->
                 IF u = t THEN FALSE
                 ELSE IF pc[u] # "idle" /\ KeyOf(req[u]) = KeyOf(req[t]) THEN TRUE
                 ELSE overwritten[u]]
            /\ origin' = [k \in DOMAIN origin \cup {KeyOf(req[t])} |->
                 IF k = KeyOf(req[t])
                 THEN [at |-> clock, path |-> contacted[t][Len(contacted[t])][2],
                       resp |-> resp]
                 ELSE origin[k]]
            /\ UNCHANGED <<wake_at, rate_locked, rate_waiters,
                           _last_request_time, last_done, min_gap, gate_calls,
                           contacted>>
       ELSE /\ LoopFrom(t, idx[t] + 1, req[t], gate_calls[t], contacted[t])
            /\ UNCHANGED <<stores, overwritten, origin>>
    /\ UNCHANGED <<config, clock, req, now, calls, fetched>>

\* The endpoint returns to the server (or the exception leaves it): the
\* task is free for the next request.
Return(t) ==
    /\ pc[t] = "done"
    /\ pc' = [pc EXCEPT ![t] = "idle"]
    /\ req' = [req EXCEPT ![t] = NoRequest]
    /\ now' = [now EXCEPT ![t] = 0]
    /\ ret' = [ret EXCEPT ![t] = NoValue]
    /\ out' = [out EXCEPT ![t] = NoValue]
    /\ fetched' = [fetched EXCEPT ![t] = FALSE]
    /\ contacted' = [contacted EXCEPT ![t] = <<>>]
    /\ gate_calls' = [gate_calls EXCEPT ![t] = 0]
    /\ answers' = [answers EXCEPT ![t] = <<>>]
    /\ stores' = [stores EXCEPT ![t] = 0]
    /\ overwritten' = [overwritten EXCEPT ![t] = FALSE]
    /\ UNCHANGED <<config, clock, _cache, _last_request_time, rate_locked,
                   rate_waiters, idx, wake_at, calls, origin, last_done, min_gap>>

\* Time passes.
Tick ==
    /\ clock < MaxTime
    /\ clock' = clock + 1
    /\ UNCHANGED <<config, _cache, _last_request_time, rate_locked, rate_waiters,
                   pc, req, now, idx, wake_at, ret, out, calls, fetched, contacted,
                   gate_calls, answers, stores, overwritten, origin, last_done,
                   min_gap>>

Next ==
    \/ \E t \in Tasks, rq \in Requests : Invoke(t, rq)
    \/ \E t \in Tasks : LockGranted(t)
    \/ \E t \in Tasks : Wake(t)
    \/ \E t \in Tasks, resp \in Responses : HttpDone(t, resp)
    \/ \E t \in Tasks : Return(t)
    \/ Tick

Spec == Init /\ [][Next]_vars

\* The same program serving the tip height endpoint, with upstreams that
\* also answer 200 with payloads that are no number.
NextTip ==
    \/ \E t \in Tasks, rq \in TipRequests : Invoke(t, rq)
    \/ \E t \in Tasks : LockGranted(t)
    \/ \E t \in Tasks : Wake(t)
    \/ \E t \in Tasks, resp \in TipResponses : HttpDone(t, resp)
    \/ \E t \in Tasks : Return(t)
    \/ Tick

SpecTip == Init /\ [][NextTip]_vars

\* The same program with the longer TTLs.
SpecLongTTL == Start(LongTTLChoices) /\ [][Next]_vars

\* The program under fair scheduling, on one signature.  Time is followed
\* to MaxTime and then as far as a sleeping task needs it: a sleep always
\* comes to its end.
LiveRequests == { <<"block", <<"a">>>> }
\* How a transport call ends: by a failure or the timeout, or by an answer.
LiveResponses == { TransportError, Response(200, "application/json", "800000") }

Elapse ==
    /\ \/ clock < MaxTime
       \/ \E t \in Tasks : pc[t] = "sleep" /\ ~SleepOver(t)
    /\ clock' = clock + 1
    /\ UNCHANGED <<config, _cache, _last_request_time, rate_locked, rate_waiters,
                   pc, req, now, idx, wake_at, ret, out, calls, fetched, contacted,
                   gate_calls, answers, stores, overwritten, origin, last_done,
                   min_gap>>

TransportEnds(t) == \E resp \in LiveResponses : HttpDone(t, resp)

NextLive ==
    \/ \E t \in Tasks, rq \in LiveRequests : Invoke(t, rq)
    \/ \E t \in Tasks : LockGranted(t)
    \/ \E t \in Tasks : Wake(t)
    \/ \E t \in Tasks : TransportEnds(t)
    \/ \E t \in Tasks : Return(t)
    \/ Elapse

\* The event loop runs every task that is ready (the one handed the lock,
\* the one whose sleep is over), time passes, and every transport call ends,
\* by its answer, its failure or the client's timeout.  Nothing obliges a
\* request to arrive.
Fairness ==
    /\ WF_vars(Elapse)
    /\ \A t \in Tasks :
         /\ WF_vars(LockGranted(t))
         /\ WF_vars(Wake(t))
         /\ WF_vars(TransportEnds(t))

SpecLive == Init /\ [][NextLive]_vars /\ Fairness

\* ======================================================================
\* Properties
\* ======================================================================

\* Steps of a task, for the properties about one step.
Invoked(t) == pc[t] = "idle" /\ pc'[t] # "idle"
Finished(t) == pc[t] # "done" /\ pc'[t] = "done"
IsValue(v) == v.kind \in {"int", "str", "dict"}
IsError(v) == v.kind = "error"

\* C1: with a rate R > 0, any two calls of the rate gate return at least 1/R
\* apart, whatever the interleaving.  The returns of the gate are ordered in
\* time, so it is enough that every return comes at least 1/R after the
\* return before it: min_gap is the least such distance seen.
C1_GateSpacing ==
    RATE_LIMIT_RPS > 0 => min_gap >= MinInterval

\* Two tasks are past the gate at once, the second having queued for the lock.
C1_Witness ==
    /\ RATE_LIMIT_RPS > 0
    /\ min_gap <= MaxTime
    /\ \E t, u \in Tasks : t # u /\ pc[t] = "http" /\ pc[u] = "http"

\* The responses C2 and C3 speak of.
Is200(resp) == ~resp.exc /\ resp.status = 200
ParseFails(resp) ==
    Is200(resp) /\ resp.ctype = "application/json" /\ JsonParse(resp.body).kind = "raise"
PayloadOf(resp) ==
    IF resp.ctype = "application/json" THEN JsonParse(resp.body) ELSE StrVal(resp.body)
InListOrder(t) ==
    \A j \in 1..Len(contacted[t]) :
        contacted[t][j] = UrlOf(UPSTREAMS[j], PathOf(req[t]))

\* C2, as claimed: every 200 response ends the loop of its fetch, which
\* returns that response's payload and contacts no later upstream.
C2_Every200EndsLoop ==
    \A t \in Tasks : \A i \in 1..Len(answers[t]) :
        Is200(answers[t][i]) =>
            /\ i = Len(answers[t])
            /\ Len(contacted[t]) = i
            /\ pc[t] = "done"
            /\ ret[t] = PayloadOf(answers[t][i])

\* C2, amended: every 200 response whose body is text, or JSON that parses,
\* ends the loop of its fetch: the fetch returns that response's payload (the
\* parsed value for JSON, the raw text otherwise), it has contacted the
\* upstreams before it in list order and contacts none after it.
C2_FirstUsable200EndsLoop ==
    \A t \in Tasks : \A i \in 1..Len(answers[t]) :
        (Is200(answers[t][i]) /\ ~ParseFails(answers[t][i])) =>
            /\ i = Len(answers[t])
            /\ Len(contacted[t]) = i
            /\ InListOrder(t)
            /\ pc[t] = "done"
            /\ ret[t] = PayloadOf(answers[t][i])

\* The first upstream of two answered 200 with JSON and the fetch is over,
\* the second upstream never contacted.
C2_Witness ==
    \E t \in Tasks :
        /\ Len(UPSTREAMS) = 2
        /\ pc[t] = "done"
        /\ Len(answers[t]) = 1
        /\ Is200(answers[t][1])
        /\ ret[t] = IntVal(800000)

\* C3, as claimed: a fetch fails with all-upstreams-exhausted exactly when
\* every upstream yielded a transport failure or a status other than 200.
C3_ExhaustedIffAllFailed ==
    \A t \in Tasks :
        (pc[t] = "done" /\ fetched[t]) =>
            ( ret[t] = HTTPException502
              <=> /\ Len(answers[t]) = Len(UPSTREAMS)
                  /\ \A i \in 1..Len(answers[t]) : ~Is200(answers[t][i]) )

\* C3, amended: a fetch fails with all-upstreams-exhausted exactly when every
\* upstream yielded a transport failure, a status other than 200, or a 200
\* JSON response whose body does not parse; the resolve then returns no
\* value, has contacted every upstream once and has stored nothing.
C3_ExhaustedIffNoneUsable ==
    \A t \in Tasks :
        (pc[t] = "done" /\ fetched[t]) =>
            /\ ret[t] = HTTPException502
               <=> /\ Len(answers[t]) = Len(UPSTREAMS)
                   /\ \A i \in 1..Len(answers[t]) :
                        ~Is200(answers[t][i]) \/ ParseFails(answers[t][i])
            /\ ret[t] = HTTPException502 =>
                 /\ ~IsValue(ret[t])
                 /\ Len(contacted[t]) = Len(UPSTREAMS)
                 /\ gate_calls[t] = Len(UPSTREAMS)
                 /\ stores[t] = 0

\* A resolve over two upstreams failed, one by a transport error and one by
\* its status.
C3_Witness ==
    \E t \in Tasks :
        /\ pc[t] = "done"
        /\ ret[t] = HTTPException502
        /\ Len(answers[t]) = 2
        /\ answers[t][1].exc
        /\ answers[t][2].status = 404

\* C4: a resolve that fails with all-upstreams-exhausted writes nothing to
\* the cache: the step in which it fails leaves every entry as it was (none
\* created, none changed), and the resolve has stored nothing before.
C4_FailureWritesNothing ==
    [][ \A t \in Tasks :
          (Finished(t) /\ IsError(ret'[t])) => (_cache' = _cache /\ stores'[t] = 0)
      ]_vars

\* A resolve has failed while an entry, stored by an earlier resolve, exists
\* under its key.
C4_Witness ==
    \E t \in Tasks :
        /\ pc[t] = "done"
        /\ IsError(ret[t])
        /\ Len(answers[t]) > 0
        /\ KeyOf(req[t]) \in DOMAIN _cache

\* C5: a lookup at time t of a key whose entry is (v, t0) returns v when
\* t < t0 + TTL and falls through to the fetch when t >= t0 + TTL; with
\* TTL = 0 every lookup falls through.
C5_LookupWithinTTL ==
    [][ \A t \in Tasks :
          Invoked(t) =>
            /\ KeyOf(req'[t]) \in DOMAIN _cache =>
                 LET v == _cache[KeyOf(req'[t])][1]
                     t0 == _cache[KeyOf(req'[t])][2]
                 IN /\ clock < t0 + CACHE_TTL * TicksPerSec =>
                         (pc'[t] = "done" /\ ret'[t] = v /\ ~fetched'[t])
                    /\ clock >= t0 + CACHE_TTL * TicksPerSec =>
                         (fetched'[t] /\ ~IsValue(ret'[t]))
            /\ CACHE_TTL = 0 => (fetched'[t] /\ ~IsValue(ret'[t]))
      ]_vars

\* One resolve was served from the cache, and another met a stale entry and
\* went on to fetch.
C5_Witness ==
    \E t, u \in Tasks :
        /\ pc[t] = "done" /\ ~fetched[t] /\ IsValue(ret[t])
        /\ pc[u] = "http" /\ stores[u] = 0
        /\ KeyOf(req[u]) \in DOMAIN _cache
        /\ now[u] >= _cache[KeyOf(req[u])][2] + CACHE_TTL * TicksPerSec
        /\ CACHE_TTL > 0

\* C6, as claimed: when a resolve has missed, fetched a value and returned,
\* a resolve of the same signature invoked afterwards, less than TTL after
\* the first was invoked, is served from the cache: it returns the first
\* one's value and makes no transport call, so that the two cause one fetch
\* round.
C6_SecondCallServed ==
    [][ \A t, u \in Tasks :
          ( /\ t # u
            /\ pc[t] = "done" /\ fetched[t] /\ IsValue(ret[t])
            /\ Invoked(u) /\ req'[u] = req[t]
            /\ clock - now[t] < CACHE_TTL * TicksPerSec )
          => /\ pc'[u] = "done" /\ ret'[u] = ret[t]
             /\ ~fetched'[u] /\ contacted'[u] = <<>>
      ]_vars

\* C6, amended: the same, provided no other resolve has stored a result for
\* that signature since the first one stored its own.
C6_SecondCallServedUnlessOverwritten ==
    [][ \A t, u \in Tasks :
          ( /\ t # u
            /\ pc[t] = "done" /\ fetched[t] /\ IsValue(ret[t])
            /\ ~overwritten[t]
            /\ Invoked(u) /\ req'[u] = req[t]
            /\ clock - now[t] < CACHE_TTL * TicksPerSec )
          => /\ pc'[u] = "done" /\ ret'[u] = ret[t]
             /\ ~fetched'[u] /\ contacted'[u] = <<>>
      ]_vars

\* Two resolves of one signature have returned the same value, the first
\* after one transport call, the second after none.
C6_Witness ==
    \E t, u \in Tasks :
        /\ t # u
        /\ pc[t] = "done" /\ fetched[t] /\ IsValue(ret[t]) /\ ~overwritten[t]
        /\ Len(contacted[t]) = 1 /\ stores[t] = 1
        /\ pc[u] = "done" /\ ~fetched[u] /\ req[u] = req[t]
        /\ now[u] - now[t] < CACHE_TTL * TicksPerSec
        /\ ret[u] = ret[t] /\ contacted[u] = <<>>

\* C7: a resolve that finds its entry present and within TTL returns in
\* that step without a transport call, without entering the rate gate, and
\* leaves the gate's last-call time, the lock and every cache entry as they
\* were.
C7_HitTouchesNothing ==
    [][ \A t \in Tasks :
          ( /\ Invoked(t)
            /\ KeyOf(req'[t]) \in DOMAIN _cache
            /\ clock - _cache[KeyOf(req'[t])][2] < CACHE_TTL * TicksPerSec )
          => /\ pc'[t] = "done"
             /\ contacted'[t] = <<>> /\ gate_calls'[t] = 0 /\ stores'[t] = 0
             /\ _last_request_time' = _last_request_time
             /\ rate_locked' = rate_locked /\ rate_waiters' = rate_waiters
             /\ last_done' = last_done
             /\ _cache' = _cache
      ]_vars

\* A resolve was served from the cache while another task was asleep inside
\* the enabled gate.
C7_Witness ==
    \E t, u \in Tasks :
        /\ RATE_LIMIT_RPS > 0
        /\ pc[t] = "done" /\ ~fetched[t] /\ IsValue(ret[t]) /\ now[t] = clock
        /\ pc[u] = "sleep" /\ rate_locked

\* The entry and the lookup result of a request's signature, as sets of at
\* most one element.
EntryOf(rq) ==
    IF KeyOf(rq) \in DOMAIN _cache THEN {_cache[KeyOf(rq)]} ELSE {}
LookupOf(rq) ==
    IF /\ KeyOf(rq) \in DOMAIN _cache
       /\ clock - _cache[KeyOf(rq)][2] < CACHE_TTL * TicksPerSec
    THEN {_cache[KeyOf(rq)][1]}
    ELSE {}

\* C8: signatures that differ in the operation name or in an argument never
\* share an entry: a store for one request leaves the entry (value and
\* timestamp) and the lookup result of every other request as they were.
C8_StoreLeavesOtherSignatures ==
    [][ \A t \in Tasks :
          stores'[t] > stores[t] =>
            \A rq \in Requests :
                rq # req[t] =>
                    /\ EntryOf(rq)' = EntryOf(rq)
                    /\ LookupOf(rq)' = LookupOf(rq)
      ]_vars

\* Entries are held at once for two signatures of one name and different
\* arguments, and for two of different names and one argument, not all equal.
C8_Witness ==
    /\ \A rq \in Requests : EntryOf(rq) # {}
    /\ EntryOf(<<"block", <<"a">>>>) # EntryOf(<<"block", <<"b">>>>)
    /\ EntryOf(<<"block", <<"a">>>>) # EntryOf(<<"tx", <<"a">>>>)

\* C9: with an empty upstream list every fetch fails at once with
\* all-upstreams-exhausted: no task is ever suspended, no resolve enters the
\* gate or makes a transport call, and the gate stays as it started.
C9_EmptyListFailsAtOnce ==
    UPSTREAMS = <<>> =>
        /\ \A t \in Tasks :
             /\ pc[t] \in {"idle", "done"}
             /\ pc[t] = "done" => ret[t] = HTTPException502
             /\ gate_calls[t] = 0 /\ contacted[t] = <<>> /\ answers[t] = <<>>
        /\ _last_request_time = 0
        /\ ~rate_locked /\ rate_waiters = <<>>
        /\ last_done = -1

\* The first resolve of the process has failed on the empty list, the gate
\* being enabled.
C9_Witness ==
    /\ UPSTREAMS = <<>>
    /\ RATE_LIMIT_RPS > 0
    /\ calls = 1
    /\ \E t \in Tasks : pc[t] = "done" /\ ret[t] = HTTPException502 /\ fetched[t]

\* C10: with a rate R <= 0 the gate is disabled: every call of _rate_limit
\* returns at once (each is followed by its transport call in the same
\* step), no task waits for the lock or sleeps, the lock is never taken and
\* the last-call time is never changed.
C10_DisabledGate ==
    RATE_LIMIT_RPS <= 0 =>
        /\ _last_request_time = 0
        /\ ~rate_locked /\ rate_waiters = <<>>
        /\ \A t \in Tasks :
             /\ pc[t] \notin {"lock_wait", "sleep"}
             /\ Len(contacted[t]) = gate_calls[t]

\* With a negative rate, two tasks have gone through the gate at the same
\* time, one of them twice.
C10_Witness ==
    /\ RATE_LIMIT_RPS < 0
    /\ \E t, u \in Tasks :
         /\ t # u
         /\ pc[t] = "http" /\ gate_calls[t] = 2
         /\ pc[u] = "http" /\ now[u] = now[t]

\* C11: the tip height endpoint returns the integer value of the resolved
\* payload when it has one (the number itself, the number a text of digits
\* spells) and the payload unchanged, without error, when it has none (any
\* other text, a JSON object), whether the payload came from the cache or
\* from an upstream; a failed resolve leaves the endpoint as the same error.
C11_TipHeightCoerced ==
    \A t \in Tasks :
        (pc[t] = "done" /\ req[t] = TipHeight) =>
            /\ ret[t] \in {IntVal(800000), StrVal("800000")} => out[t] = IntVal(800000)
            /\ ret[t] \in {StrVal("<html>"), DictVal} => out[t] = ret[t]
            /\ IsError(ret[t]) => out[t] = ret[t]
            /\ ret[t] \in {IntVal(800000), StrVal("800000"), StrVal("<html>"),
                            DictVal, HTTPException502}

\* One tip height request is served the text "800000" from the cache and
\* answers the number; another fetched a text that is no number and answers
\* that text.
C11_Witness ==
    \E t, u \in Tasks :
        /\ pc[t] = "done" /\ req[t] = TipHeight /\ ~fetched[t]
        /\ ret[t] = StrVal("800000") /\ out[t] = IntVal(800000)
        /\ pc[u] = "done" /\ req[u] = TipHeight /\ fetched[u]
        /\ ret[u] = StrVal("<html>") /\ out[u] = StrVal("<html>")

\* A step in which task t stores to the cache.
Stored(t) == stores'[t] > stores[t]

\* C12, as claimed: the timestamp stored with a fetched result is the time
\* of the store, however long the fetch took.
C12_TimestampIsStoreTime ==
    [][ \A t \in Tasks :
          Stored(t) => _cache'[KeyOf(req[t])][2] = clock
      ]_vars

\* What C13 counts as a failed call: as claimed, and with the 200 JSON
\* response whose body does not parse.
FailedAsClaimed(resp) == resp.exc \/ resp.status # 200
FailedOrUnparsed(resp) == FailedAsClaimed(resp) \/ ParseFails(resp)

\* The events of task t's fetch so far: the upstreams contacted are the
\* first of the list, in list order, each once, on the request's path; every
\* transport call follows a gate call of its own; every call before the
\* latest has been answered.
FetchInOrder(t) ==
    /\ Len(contacted[t]) <= Len(UPSTREAMS)
    /\ \A j \in 1..Len(contacted[t]) :
         /\ contacted[t][j][1] = UPSTREAMS[j]
         /\ contacted[t][j][2] = PathOf(req[t])
    /\ gate_calls[t] =
         Len(contacted[t]) + (IF pc[t] \in {"lock_wait", "sleep"} THEN 1 ELSE 0)
    /\ Len(answers[t]) =
         Len(contacted[t]) - (IF pc[t] = "http" THEN 1 ELSE 0)

\* C13, as claimed: upstream k is contacted only after upstreams 1..k-1 were
\* each contacted once in this fetch and each failed by a transport failure
\* or a status other than 200.
C13_NextOnlyAfterFailure ==
    \A t \in Tasks :
        pc[t] # "idle" =>
            /\ FetchInOrder(t)
            /\ \A j \in 1..Len(answers[t]) :
                 j < gate_calls[t] => FailedAsClaimed(answers[t][j])

\* C13, amended: the events of one fetch are, for each upstream of the list
\* from the first, one gate call and then one transport call to that
\* upstream; upstream k is contacted only after upstreams 1..k-1 were each
\* contacted once in this fetch and each failed (transport failure, status
\* other than 200, or a 200 JSON response whose body does not parse); no
\* upstream is contacted twice, and every fetch starts at the first upstream.
C13_NextOnlyAfterUnusable ==
    \A t \in Tasks :
        pc[t] # "idle" =>
            /\ FetchInOrder(t)
            /\ \A j \in 1..Len(answers[t]) :
                 j < gate_calls[t] => FailedOrUnparsed(answers[t][j])

\* A second fetch of the run is at its second upstream, the first having
\* failed, after an earlier resolve was answered by the first upstream.
C13_Witness ==
    \E t \in Tasks :
        /\ calls >= 2
        /\ _cache # <<>>
        /\ pc[t] = "http"
        /\ Len(contacted[t]) = 2
        /\ Len(answers[t]) = 1
        /\ FailedAsClaimed(answers[t][1])

\* C14: with R > 0 at most one task is inside the gate's critical section:
\* the lock is held exactly while one task sleeps there, and as long as it
\* sleeps no other task reads or writes the last-call time, starts a sleep
\* of its own or leaves the gate.
C14_OneInCriticalSection ==
    /\ [](RATE_LIMIT_RPS > 0 =>
            /\ Cardinality({t \in Tasks : pc[t] = "sleep"}) <= 1
            /\ rate_locked <=> (\E t \in Tasks : pc[t] = "sleep"))
    /\ [][ \A u \in Tasks :
             (pc[u] = "sleep" /\ pc'[u] = "sleep") =>
                 /\ _last_request_time' = _last_request_time
                 /\ \A t \in Tasks \ {u} :
                      /\ pc'[t] # "sleep"
                      /\ pc'[t] = "http" => (pc[t] = "http" /\ contacted'[t] = contacted[t])
         ]_vars

\* One task sleeps inside the gate while the other waits for the lock.
C14_Witness ==
    \E t, u \in Tasks :
        /\ pc[u] = "sleep" /\ rate_locked
        /\ pc[t] = "lock_wait" /\ rate_waiters = <<t>>

\* C15: the last-call time never decreases, and a step that changes it is
\* the step of a task that holds the lock: the task that slept under it, or
\* a task that takes the free lock in that step (first of the queue, if any
\* task is queued).
C15_LastCallTimeMonotone ==
    [][ /\ _last_request_time' >= _last_request_time
        /\ _last_request_time' # _last_request_time =>
             \E t \in Tasks :
                 /\ pc'[t] = "http"
                 /\ \/ pc[t] = "sleep" /\ rate_locked
                    \/ /\ ~rate_locked
                       /\ pc[t] # "sleep"
                       /\ rate_waiters = <<>> \/ Head(rate_waiters) = t
      ]_vars

\* The last-call time has been written twice, the second time by a task
\* that had waited for the lock.
C15_Witness ==
    /\ min_gap <= MaxTime
    /\ _last_request_time = MaxTime
    /\ \E t, u \in Tasks : t # u /\ pc[t] = "http" /\ pc[u] = "http"

\* C16: concurrent resolves of one signature are not deduplicated.  A
\* resolve that missed and was still fetching when another stored under its
\* key goes on with its own round; when its fetch succeeds it returns the
\* payload of its own transport call and stores it, and the entry is then
\* its result with its now: the last store wins.
C16_NoDeduplication ==
    [][ \A u \in Tasks :
          ( /\ fetched[u] /\ overwritten[u] /\ stores[u] = 0
            /\ Finished(u) /\ IsValue(ret'[u]) )
          => /\ Len(answers'[u]) >= 1
             /\ ret'[u] = PayloadOf(answers'[u][Len(answers'[u])])
             /\ stores'[u] = 1
             /\ _cache'[KeyOf(req[u])] = <<ret'[u], now[u]>>
      ]_vars

\* Two resolves of one signature each made a transport call and stored a
\* different value; the entry holds the value of the one that stored last.
C16_Witness ==
    \E t, u \in Tasks :
        /\ t # u /\ req[t] = req[u]
        /\ pc[t] = "done" /\ pc[u] = "done"
        /\ fetched[t] /\ fetched[u]
        /\ stores[t] = 1 /\ stores[u] = 1
        /\ Len(contacted[t]) >= 1 /\ Len(contacted[u]) >= 1
        /\ overwritten[t] /\ ~overwritten[u]
        /\ ret[t] # ret[u]
        /\ _cache[KeyOf(req[u])][1] = ret[u]

\* C17: no step removes an entry; an entry changes only in the step of a
\* successful resolve of its signature, which overwrites it; a lookup that
\* finds a stale entry leaves its value and timestamp in place.
C17_EntriesNeverRemoved ==
    [][ /\ DOMAIN _cache \subseteq DOMAIN _cache'
        /\ \A k \in DOMAIN _cache :
             _cache'[k] # _cache[k] =>
                 \E t \in Tasks :
                     Stored(t) /\ KeyOf(req[t]) = k /\ IsValue(ret'[t])
        /\ \A t \in Tasks :
             ( /\ Invoked(t)
               /\ KeyOf(req'[t]) \in DOMAIN _cache
               /\ clock - _cache[KeyOf(req'[t])][2] >= CACHE_TTL * TicksPerSec )
             => _cache' = _cache
      ]_vars

\* A resolve met a stale entry, failed, and the entry is still there, beside
\* the entry of another signature.
C17_Witness ==
    \E t \in Tasks :
        /\ CACHE_TTL > 0
        /\ pc[t] = "done" /\ fetched[t] /\ IsError(ret[t])
        /\ KeyOf(req[t]) \in DOMAIN _cache
        /\ now[t] - _cache[KeyOf(req[t])][2] >= CACHE_TTL * TicksPerSec
        /\ Cardinality(DOMAIN _cache) = 2

\* C19, as claimed: a store never writes a timestamp older than the one of
\* the entry it overwrites.
C19_TimestampNeverBackwards ==
    [][ \A t \in Tasks :
          (Stored(t) /\ KeyOf(req[t]) \in DOMAIN _cache) =>
              _cache'[KeyOf(req[t])][2] >= _cache[KeyOf(req[t])][2]
      ]_vars

\* C18: under fair scheduling, with transport calls that all end, every
\* call of the rate gate returns (its caller goes on to the transport call),
\* every resolve returns a value or fails with all upstreams exhausted, and
\* the lock of the gate, once held, is released: no task waits for it for
\* ever.
C18_EverythingReturns ==
    /\ \A t \in Tasks :
         (pc[t] \in {"lock_wait", "sleep"}) ~> (pc[t] = "http")
    /\ \A t \in Tasks :
         (pc[t] \in {"lock_wait", "sleep", "http"}) ~>
             (pc[t] = "done" /\ (IsValue(ret[t]) \/ ret[t] = HTTPException502))
    /\ rate_locked ~> ~rate_locked

\* Both tasks went through the gate, one of them queueing for the lock and
\* sleeping past MaxTime; one resolve returned a value, the other failed
\* with all upstreams exhausted, and the lock is free again.
C18_Witness ==
    \E t, u \in Tasks :
        /\ RATE_LIMIT_RPS > 0
        /\ clock > MaxTime
        /\ pc[t] = "done" /\ IsValue(ret[t]) /\ gate_calls[t] >= 1
        /\ pc[u] = "done" /\ ret[u] = HTTPException502 /\ gate_calls[u] = Len(UPSTREAMS)
        /\ Len(UPSTREAMS) = MaxUpstreams
        /\ ~rate_locked /\ rate_waiters = <<>>

\* C20: every value a resolve returns from a cache hit is the payload of a
\* status 200 response received from an upstream on the path of the
\* resolve's own signature, no later than the hit's lookup and less than
\* the TTL before it.
C20_HitsServeRecentPayloads ==
    [][ \A t \in Tasks :
          (Invoked(t) /\ ~fetched'[t]) =>
              LET k == KeyOf(req'[t]) IN
              /\ k \in DOMAIN origin
              /\ Is200(origin[k].resp)
              /\ ret'[t] = PayloadOf(origin[k].resp)
              /\ origin[k].path = PathOf(req'[t])
              /\ origin[k].at <= clock
              /\ clock - origin[k].at < CACHE_TTL * TicksPerSec
      ]_vars

\* A resolve was served from an entry whose value was received later than
\* the entry's timestamp says.
C20_Witness ==
    \E t \in Tasks :
        /\ pc[t] = "done" /\ ~fetched[t]
        /\ KeyOf(req[t]) \in DOMAIN origin
        /\ _cache[KeyOf(req[t])][2] < origin[KeyOf(req[t])].at
        /\ origin[KeyOf(req[t])].at <= now[t]
        /\ ret[t] = _cache[KeyOf(req[t])][1]

====
